---- MODULE Spec2Model ----
(***************************************************************************)
(* State-machine model of the Organixa storefront: the vendor order-status *)
(* dashboard, the cart, the address book and the checkout modal.  The      *)
(* hosted tables (orders, cart_items, user_profiles.addresses) are the      *)
(* persisted state; every browser session keeps its own React state.        *)
(***************************************************************************)
EXTENDS Integers, Sequences, FiniteSets, TLC

\* ------------------------------------------------------------------------
\* Bounds of the model
\* ------------------------------------------------------------------------
MaxQueue == 2        \* realtime payloads waiting at one vendor session
MaxWrites == 3       \* status writes the server accepts in one behaviour
MaxCartRows == 3     \* cart_items rows inserted in one behaviour
MaxQty == 2          \* largest quantity a shopper picks
MaxAddrIds == 2      \* addresses created in one behaviour
MaxOpens == 1        \* gateway checkouts opened in one behaviour
MaxAttempts == 1     \* checkout submits in one behaviour
MaxReopens == 1      \* further gateway checkouts opened by re-renders of the product page
MaxFavRows == 3      \* favorites rows inserted in one behaviour
MaxReviewRows == 3   \* reviews rows inserted in one behaviour

\* ------------------------------------------------------------------------
\* Sessions
\* ------------------------------------------------------------------------
Vendors == {"v1", "v2"}      \* two dashboard sessions that both list the order

\* selectedOrder = null
NoOrder == [id |-> 0, status |-> "none"]

\* ------------------------------------------------------------------------
\* Order status stages (company/dashboard/page.tsx)
\* ------------------------------------------------------------------------
statusOrder == <<"confirmed", "payment_accepted", "preparing", "shipped", "delivered">>

proTimelineSteps == <<"confirmed", "payment_accepted", "preparing", "shipped", "delivered">>

AllStatuses == {statusOrder[i] : i \in 1..Len(statusOrder)} \cup {"cancelled"}

\* Array.prototype.indexOf: 0-based position, -1 when absent
IndexOf(seq, x) ==
  IF \E i \in 1..Len(seq) : seq[i] = x
  THEN (CHOOSE i \in 1..Len(seq) : seq[i] = x /\ \A j \in 1..(i-1) : seq[j] # x) - 1
  ELSE -1

\* UpdateStatusModal: the steps offered for the order the modal was opened on
availableSteps(currentStatus) ==
  {proTimelineSteps[i] : i \in {j \in 1..Len(proTimelineSteps) :
      IndexOf(statusOrder, proTimelineSteps[j]) > IndexOf(statusOrder, currentStatus)}}

\* Customer timeline (components/razorpay-payment.tsx): its own copies of the step list
\* and of the stage order
timelineSteps == <<"confirmed", "payment_accepted", "preparing", "shipped", "delivered">>

timelineStatusOrder == <<"confirmed", "payment_accepted", "preparing", "shipped", "delivered">>

OrderStatusTimelineAllDone(currentStatus) ==
  [stepIdx \in 1..Len(timelineSteps) |->
     IF IndexOf(timelineStatusOrder, timelineSteps[stepIdx]) <= IndexOf(timelineStatusOrder, currentStatus)
     THEN "completed" ELSE "pending"]

\* OrderStatusTimeline({ currentStatus }): the rendering chosen for each step
\* (isActive is tested first, then isCompleted, else the inactive style)
OrderStatusTimeline(currentStatus) ==
  LET currentStatusIdx == IndexOf(timelineStatusOrder, currentStatus)
  IN [stepIdx \in 1..Len(timelineSteps) |->
        LET thisStepIdx == IndexOf(timelineStatusOrder, timelineSteps[stepIdx])
        IN IF thisStepIdx = currentStatusIdx THEN "active"
           ELSE IF thisStepIdx < currentStatusIdx THEN "completed"
           ELSE "pending"]

VARIABLES
  orders,          \* orders table: sequence of order rows
  vOrders,         \* per vendor session: `orders` React state (status per row)
  selectedOrder,   \* per vendor session: order captured when the modal was opened
  modalOpen,       \* per vendor session
  isUpdating,      \* per vendor session
  upd,             \* per vendor session: position of handleStatusUpdate
  rtQueue,         \* per vendor session: realtime UPDATE payloads not yet handled
  nWrites,         \* status writes applied so far (bounded by MaxWrites)
  applied,         \* the <<order, status>> pairs those writes carried
  catalog,         \* products table: original_price / discount_price per product
  cartDb,          \* cart_items table: set of rows
  nextCartId,      \* ids the table has handed out
  addOp,           \* per shopper tab: position of handleAddToCart
  inCartLocal,     \* per shopper tab: products the tab believes to be in the cart
  addrDb,          \* user_profiles.addresses of the shopper: sequence of addresses
  nextAddrId,      \* address ids (uuidv4) handed out so far
  lastAddrWrite,   \* the update that produced the current addrDb
  profile,         \* per profile tab: addresses of the `profile` React state
  hasProfile,      \* per profile tab: profile !== null
  editingAddress,  \* per profile tab
  isAddingAddress, \* per profile tab
  isDefaultAddress,\* per profile tab: the "Set as default address" checkbox
  cpOp,            \* profile-completion popup: position of handleCompleteProfile
  cartItems,       \* cart page: `cartItems` React state (rows with joined product)
  searchTerm,      \* cart page: header search term
  host,            \* page of the checkout tab whose showCheckoutModal is true
  directItem,      \* product page: product and quantity of a direct buy
  userAddresses,   \* checkout modal state
  selectedAddressId, \* checkout modal state
  showRazorpay,    \* checkout modal state
  isReady,         \* RazorpayPayment state: checkout.js has loaded
  orderId,         \* checkout modal state: tempOrderId of the last submit
  nAttempts,       \* submits so far
  gw,              \* gateway checkouts opened by razorpay.open(), with their callbacks
  favDb,           \* favorites table: set of rows
  nextFavId,       \* ids the favorites table has handed out
  isFav,           \* per heart button: the `isFav` / `isFavorite` React state
  reviewsDb,       \* reviews table: set of rows
  nextReviewId,    \* ids the reviews table has handed out
  reviewOp,        \* per product-page session: position of handleReviewSubmit
  hasReviewed      \* per product-page session: the `hasReviewed` React state

statusVars == <<orders, vOrders, selectedOrder, modalOpen, isUpdating, upd, rtQueue, nWrites, applied>>

dbVars == <<orders, cartDb, nextCartId, addrDb, nextAddrId, lastAddrWrite>>

vendorVars == <<vOrders, selectedOrder, modalOpen, isUpdating, upd, rtQueue, nWrites, applied>>

cartVars == <<catalog, cartDb, nextCartId, addOp, inCartLocal>>

addrDbVars == <<addrDb, nextAddrId, lastAddrWrite>>

profileVars == <<profile, hasProfile, editingAddress, isAddingAddress, isDefaultAddress, cpOp>>

cartPageVars == <<cartItems, searchTerm>>

favVars == <<favDb, nextFavId, isFav>>

reviewVars == <<reviewsDb, nextReviewId, reviewOp, hasReviewed>>

modalVars == <<host, directItem, userAddresses, selectedAddressId, showRazorpay, isReady,
               orderId, nAttempts>>

vars == <<orders, vOrders, selectedOrder, modalOpen, isUpdating, upd, rtQueue, nWrites, applied,
          catalog, cartDb, nextCartId, addOp, inCartLocal,
          addrDb, nextAddrId, lastAddrWrite, profile, hasProfile, editingAddress, isAddingAddress,
          isDefaultAddress, cpOp,
          cartItems, searchTerm, host, directItem, userAddresses, selectedAddressId,
          showRazorpay, isReady, orderId, nAttempts, gw,
          favDb, nextFavId, isFav, reviewsDb, nextReviewId, reviewOp, hasReviewed>>

Idle == [st |-> "idle"]

\* an order row as handlePaymentSuccess inserts it
OrderRow(total, items, payment, oid, street) ==
  [user_id |-> "u1", status |-> "confirmed", total_amount |-> total, order_items |-> items,
   payment_id |-> payment, order_id |-> oid, street |-> street]

\* variant: the status write also resets the payment reference of the row
SetStatusAndPayment(rows, id, s) == [rows EXCEPT ![id].status = s, ![id].payment_id = 0]

SetStatus(rows, id, s) == [rows EXCEPT ![id].status = s]

\* ------------------------------------------------------------------------
\* Vendor dashboard (CompanyMyOrdersPage)
\* ------------------------------------------------------------------------
fetchCompanyOrders(v) ==
  /\ vOrders' = [vOrders EXCEPT ![v] = [i \in 1..Len(orders) |-> orders[i].status]]
  /\ UNCHANGED <<orders, selectedOrder, modalOpen, isUpdating, upd, rtQueue, nWrites, applied>>

\* "Update Status" button of one order card
OpenUpdateModal(v, id) ==
  /\ id \in 1..Len(vOrders[v])
  /\ vOrders[v][id] # "delivered" /\ vOrders[v][id] # "cancelled"
  /\ ~isUpdating[v]
  /\ selectedOrder' = [selectedOrder EXCEPT ![v] = [id |-> id, status |-> vOrders[v][id]]]
  /\ modalOpen' = [modalOpen EXCEPT ![v] = TRUE]
  /\ UNCHANGED <<orders, vOrders, isUpdating, upd, rtQueue, nWrites, applied>>

CloseUpdateModal(v) ==
  /\ modalOpen[v]
  /\ modalOpen' = [modalOpen EXCEPT ![v] = FALSE]
  /\ UNCHANGED <<orders, vOrders, selectedOrder, isUpdating, upd, rtQueue, nWrites, applied>>

\* a "Set to: ..." button of the modal: handleStatusUpdate up to its await
handleStatusUpdate(v, newStatus) ==
  /\ modalOpen[v] /\ selectedOrder[v] # NoOrder
  /\ ~isUpdating[v]
  /\ upd[v] = Idle
  /\ newStatus \in availableSteps(selectedOrder[v].status)
  /\ isUpdating' = [isUpdating EXCEPT ![v] = TRUE]
  /\ upd' = [upd EXCEPT ![v] = [st |-> "sent", id |-> selectedOrder[v].id, newStatus |-> newStatus]]
  /\ UNCHANGED <<orders, vOrders, selectedOrder, modalOpen, rtQueue, nWrites, applied>>

\* the orders table executes .update({status}).eq('id', orderId), or the call errors
OrdersUpdate(v, ok) ==
  /\ upd[v].st = "sent"
  /\ IF ok
     THEN /\ nWrites < MaxWrites
          /\ \A w \in Vendors : Len(rtQueue[w]) < MaxQueue
          /\ orders' = SetStatus(orders, upd[v].id, upd[v].newStatus)
          /\ rtQueue' = [w \in Vendors |->
                           Append(rtQueue[w], [id |-> upd[v].id, status |-> upd[v].newStatus])]
          /\ nWrites' = nWrites + 1
          /\ applied' = applied \cup {<<upd[v].id, upd[v].newStatus>>}
          /\ upd' = [upd EXCEPT ![v].st = "applied"]
     ELSE /\ upd' = [upd EXCEPT ![v].st = "failed"]
          /\ UNCHANGED <<orders, rtQueue, nWrites, applied>>
  /\ UNCHANGED <<vOrders, selectedOrder, modalOpen, isUpdating>>

\* handleStatusUpdate after its await
handleStatusUpdateDone(v) ==
  /\ upd[v].st \in {"applied", "failed"}
  /\ IF upd[v].st = "applied"
     THEN /\ modalOpen' = [modalOpen EXCEPT ![v] = FALSE]
          /\ vOrders' = [vOrders EXCEPT ![v] =
                           [i \in 1..Len(vOrders[v]) |->
                              IF i = upd[v].id THEN upd[v].newStatus ELSE vOrders[v][i]]]
     ELSE UNCHANGED <<modalOpen, vOrders>>
  /\ isUpdating' = [isUpdating EXCEPT ![v] = FALSE]
  /\ upd' = [upd EXCEPT ![v] = Idle]
  /\ UNCHANGED <<orders, selectedOrder, rtQueue, nWrites, applied>>

\* realtime listener 'order_status_updates': patches the status in place
OrderChannelUpdate(v) ==
  /\ rtQueue[v] # <<>>
  /\ LET payload == Head(rtQueue[v]) IN
       vOrders' = [vOrders EXCEPT ![v] =
                     [i \in 1..Len(vOrders[v]) |->
                        IF i = payload.id THEN payload.status ELSE vOrders[v][i]]]
  /\ rtQueue' = [rtQueue EXCEPT ![v] = Tail(rtQueue[v])]
  /\ UNCHANGED <<orders, selectedOrder, modalOpen, isUpdating, upd, nWrites, applied>>

\* cancellation by a vendor or operator, from any stage that is not final; the
\* operation itself is not part of the dashboard code, its UPDATE reaches the
\* realtime listeners like any other
CancelOrder(id) ==
  /\ id \in 1..Len(orders)
  /\ orders[id].status \notin {"delivered", "cancelled"}
  /\ nWrites < MaxWrites
  /\ \A w \in Vendors : Len(rtQueue[w]) < MaxQueue
  /\ orders' = SetStatus(orders, id, "cancelled")
  /\ rtQueue' = [w \in Vendors |-> Append(rtQueue[w], [id |-> id, status |-> "cancelled"])]
  /\ nWrites' = nWrites + 1
  /\ applied' = applied \cup {<<id, "cancelled">>}
  /\ UNCHANGED <<vOrders, selectedOrder, modalOpen, isUpdating, upd>>

\* ------------------------------------------------------------------------
\* Catalogue and cart (product/[id]/page.tsx, addfav/page.tsx)
\* ------------------------------------------------------------------------
Products == {"p1", "p2"}

User == "u1"                 \* the signed-in shopper of every shopper tab

CartTabs == {"pd", "fav"}    \* a product-details tab and a favorites tab of that shopper

\* a nullable number column that holds null
Null == -1

InitCatalog ==
  [p \in Products |->
     IF p = "p1" THEN [original_price |-> 500, discount_price |-> Null]
                 ELSE [original_price |-> 250, discount_price |-> 200]]

\* a ?? b
Coalesce(a, b) == IF a # Null THEN a ELSE b

\* ProductDetails: displayPrice = product.discountPrice ?? product.originalPrice
displayPrice(p) == Coalesce(catalog[p].discount_price, catalog[p].original_price)

\* fetchFavorites: price = prod?.discount_price ?? prod?.original_price ?? 0
favPrice(p) == Coalesce(Coalesce(catalog[p].discount_price, catalog[p].original_price), 0)

NoOp == [st |-> "idle"]

\* rows of cart_items selected by .eq("user_id", u).eq("product_id", p)
CartRowsOf(u, p) == {r \in cartDb : r.user_id = u /\ r.product_id = p}

\* .single(): the row when exactly one row matches, else data = null (PGRST116)
SingleHit(rows) == Cardinality(rows) = 1

\* .insert({user_id, product_id, quantity, price_at_add}) on cart_items
CartInsertRow(u, p, q, price) ==
  /\ nextCartId <= MaxCartRows
  /\ cartDb' = cartDb \cup {[id |-> nextCartId, user_id |-> u, product_id |-> p,
                             quantity |-> q, price_at_add |-> price]}
  /\ nextCartId' = nextCartId + 1

\* ProductDetails.fetchUserData: setInCart(!!cartData)
fetchUserData(p) ==
  /\ inCartLocal' = [inCartLocal EXCEPT !["pd"] =
                       IF SingleHit(CartRowsOf(User, p)) THEN @ \cup {p} ELSE @ \ {p}]
  /\ UNCHANGED <<catalog, cartDb, nextCartId, addOp>>

\* addfav fetchFavorites: isInCart = cartProductIds.has(productId)
fetchFavorites ==
  /\ inCartLocal' = [inCartLocal EXCEPT !["fav"] =
                       {p \in Products : CartRowsOf(User, p) # {}}]
  /\ UNCHANGED <<catalog, cartDb, nextCartId, addOp>>

\* handleAddToCart up to the insert: the existence check with .single()
AddToCartCheck(s, p, q, price, fetchFails) ==
  /\ addOp[s] = NoOp
  /\ p \notin inCartLocal[s]
  /\ IF fetchFails
     THEN UNCHANGED <<addOp, inCartLocal>>
     ELSE IF SingleHit(CartRowsOf(User, p))
          THEN /\ inCartLocal' = [inCartLocal EXCEPT ![s] = IF s = "fav" THEN @ \cup {p} ELSE @]
               /\ UNCHANGED addOp
          ELSE /\ addOp' = [addOp EXCEPT ![s] =
                              [st |-> "inserting", product_id |-> p, quantity |-> q,
                               price_at_add |-> price]]
               /\ UNCHANGED inCartLocal
  /\ UNCHANGED <<catalog, cartDb, nextCartId>>

\* product/[id]/page.tsx handleAddToCart
pdHandleAddToCart(p, q, fetchFails) == AddToCartCheck("pd", p, q, displayPrice(p), fetchFails)

\* addfav/page.tsx handleAddToCart
favHandleAddToCart(p, fetchFails) == AddToCartCheck("fav", p, 1, favPrice(p), fetchFails)

\* handleAddToCart from the insert on
AddToCartInsert(s, ok) ==
  /\ addOp[s].st = "inserting"
  /\ IF ok
     THEN /\ CartInsertRow(User, addOp[s].product_id, addOp[s].quantity, addOp[s].price_at_add)
          /\ inCartLocal' = [inCartLocal EXCEPT ![s] = @ \cup {addOp[s].product_id}]
     ELSE UNCHANGED <<cartDb, nextCartId, inCartLocal>>
  /\ addOp' = [addOp EXCEPT ![s] = NoOp]
  /\ UNCHANGED catalog

\* product/[id]/page.tsx handleRemoveFromCart
handleRemoveFromCart(p, ok) ==
  /\ p \in inCartLocal["pd"]
  /\ IF ok
     THEN /\ cartDb' = cartDb \ CartRowsOf(User, p)
          /\ inCartLocal' = [inCartLocal EXCEPT !["pd"] = @ \ {p}]
     ELSE UNCHANGED <<cartDb, inCartLocal>>
  /\ UNCHANGED <<catalog, nextCartId, addOp>>

\* prices a vendor saves for a product: <<original_price, discount_price>>
PriceChoices == {<<500, 600>>, <<400, 300>>}

\* EditProductPage.handleSaveProduct: products.update({original_price, discount_price, ...})
handleSaveProduct(p, prices) ==
  /\ catalog[p] # [original_price |-> prices[1], discount_price |-> prices[2]]
  /\ catalog' = [catalog EXCEPT ![p] = [original_price |-> prices[1],
                                        discount_price |-> prices[2]]]
  /\ UNCHANGED <<cartDb, nextCartId, addOp, inCartLocal>>

\* ------------------------------------------------------------------------
\* Favorites (heart buttons of the shop cards, the home cards and the product page)
\* ------------------------------------------------------------------------
FavViews == {"shop", "home", "pd"}

\* the product all three heart buttons belong to
FavProduct == "p1"

FavRowsOf(u, p) == {r \in favDb : r.user_id = u /\ r.product_id = p}

\* checkUserAndFavStatus / fetchUserData: setIsFav(!!data) of a .single() select
checkUserAndFavStatus(view) ==
  /\ isFav' = [isFav EXCEPT ![view] = SingleHit(FavRowsOf(User, FavProduct))]
  /\ UNCHANGED <<favDb, nextFavId>>

\* toggleFav (shop card, home card) / toggleFavorite (product page)
toggleFav(view, ok) ==
  /\ IF ~ok
     THEN UNCHANGED <<favDb, nextFavId, isFav>>
     ELSE IF isFav[view]
          THEN /\ favDb' = favDb \ FavRowsOf(User, FavProduct)
               /\ isFav' = [isFav EXCEPT ![view] = FALSE]
               /\ UNCHANGED nextFavId
          ELSE /\ nextFavId <= MaxFavRows
               /\ favDb' = favDb \cup {[id |-> nextFavId, user_id |-> User,
                                         product_id |-> FavProduct]}
               /\ nextFavId' = nextFavId + 1
               /\ isFav' = [isFav EXCEPT ![view] = TRUE]

\* ------------------------------------------------------------------------
\* Reviews (ProductDetails.handleReviewSubmit) in two sessions of one user
\* ------------------------------------------------------------------------
ReviewTabs == {"rv1", "rv2"}

\* the product both sessions show
ReviewProduct == "p1"

ReviewRowsOf(u, p) == {r \in reviewsDb : r.user_id = u /\ r.product_id = p}

\* fetchUserData: setHasReviewed(!!reviewData) of a .single() select
fetchReviewStatus(s) ==
  /\ hasReviewed' = [hasReviewed EXCEPT ![s] = SingleHit(ReviewRowsOf(User, ReviewProduct))]
  /\ UNCHANGED <<reviewsDb, nextReviewId, reviewOp>>

\* handleReviewSubmit up to the insert: the existence check with .single()
handleReviewSubmit(s, fetchFails) ==
  /\ reviewOp[s] = Idle
  /\ ~hasReviewed[s]
  /\ IF fetchFails \/ SingleHit(ReviewRowsOf(User, ReviewProduct))
     THEN UNCHANGED reviewOp
     ELSE reviewOp' = [reviewOp EXCEPT ![s] = [st |-> "inserting"]]
  /\ UNCHANGED <<reviewsDb, nextReviewId, hasReviewed>>

\* handleReviewSubmit from the insert on
ReviewInsert(s, ok) ==
  /\ reviewOp[s] = [st |-> "inserting"]
  /\ IF ok
     THEN /\ nextReviewId <= MaxReviewRows
          /\ reviewsDb' = reviewsDb \cup {[id |-> nextReviewId, user_id |-> User,
                                            product_id |-> ReviewProduct]}
          /\ nextReviewId' = nextReviewId + 1
          /\ hasReviewed' = [hasReviewed EXCEPT ![s] = TRUE]
     ELSE UNCHANGED <<reviewsDb, nextReviewId, hasReviewed>>
  /\ reviewOp' = [reviewOp EXCEPT ![s] = Idle]

\* ------------------------------------------------------------------------
\* Address book (ProfilePage, AuthPopup.handleCompleteProfile)
\* ------------------------------------------------------------------------
ProfileTabs == {"pf1", "pf2"}    \* two profile-page tabs of the shopper

\* which handler wrote user_profiles.addresses last, and whether it upserted an address
\* with isDefault = true
AddrWrite(kind, upsertDefault) == [kind |-> kind, upsertDefault |-> upsertDefault]

\* the street line of an address, as typed into an address form
Streets == {"s1", "s2"}

\* the street typed into the forms whose text is not varied
FormStreet == "s1"

\* editingAddress = null
NoAddress == [id |-> 0, isDefault |-> FALSE, street |-> ""]

\* addresses.map((addr) => ({ ...addr, isDefault: false }))
ClearDefaults(list) == [i \in 1..Len(list) |-> [list[i] EXCEPT !.isDefault = FALSE]]

\* addresses.map((addr) => (addr.id === a.id ? a : addr))
ReplaceById(list, a) == [i \in 1..Len(list) |-> IF list[i].id = a.id THEN a ELSE list[i]]

\* addresses.filter((addr) => addr.id !== id)
RECURSIVE RemoveById(_, _)
RemoveById(list, id) ==
  IF list = <<>> THEN <<>>
  ELSE IF Head(list).id = id THEN RemoveById(Tail(list), id)
       ELSE <<Head(list)>> \o RemoveById(Tail(list), id)

IdsOf(list) == {list[i].id : i \in 1..Len(list)}

Defaults(list) == {i \in 1..Len(list) : list[i].isDefault}

FormOpen(s) == isAddingAddress[s] \/ editingAddress[s] # NoAddress

\* ProfilePage.fetchProfileData (mount, auth state change, after a save)
fetchProfileData(s) ==
  /\ profile' = [profile EXCEPT ![s] = addrDb]
  /\ hasProfile' = [hasProfile EXCEPT ![s] = TRUE]
  /\ UNCHANGED <<addrDb, nextAddrId, lastAddrWrite, editingAddress, isAddingAddress, isDefaultAddress, cpOp>>

\* "Add New Address" button
AddNewAddressClick(s) ==
  /\ hasProfile[s]
  /\ isAddingAddress' = [isAddingAddress EXCEPT ![s] = TRUE]
  /\ editingAddress' = [editingAddress EXCEPT ![s] = NoAddress]
  /\ isDefaultAddress' = [isDefaultAddress EXCEPT ![s] = FALSE]
  /\ UNCHANGED <<addrDb, nextAddrId, lastAddrWrite, profile, hasProfile, cpOp>>

openEditAddressForm(s, i) ==
  /\ hasProfile[s] /\ ~FormOpen(s)
  /\ i \in 1..Len(profile[s])
  /\ editingAddress' = [editingAddress EXCEPT ![s] = profile[s][i]]
  /\ isDefaultAddress' = [isDefaultAddress EXCEPT ![s] = profile[s][i].isDefault]
  /\ isAddingAddress' = [isAddingAddress EXCEPT ![s] = TRUE]
  /\ UNCHANGED <<addrDb, nextAddrId, lastAddrWrite, profile, hasProfile, cpOp>>

\* the checkbox of the address form
setIsDefaultAddress(s, checked) ==
  /\ hasProfile[s] /\ FormOpen(s)
  /\ checked # isDefaultAddress[s]
  /\ isDefaultAddress' = [isDefaultAddress EXCEPT ![s] = checked]
  /\ UNCHANGED <<addrDb, nextAddrId, lastAddrWrite, profile, hasProfile, editingAddress, isAddingAddress, cpOp>>

\* the Cancel button of the address form
CancelAddressForm(s) ==
  /\ hasProfile[s] /\ FormOpen(s)
  /\ isAddingAddress' = [isAddingAddress EXCEPT ![s] = FALSE]
  /\ editingAddress' = [editingAddress EXCEPT ![s] = NoAddress]
  /\ isDefaultAddress' = [isDefaultAddress EXCEPT ![s] = FALSE]
  /\ UNCHANGED <<addrDb, nextAddrId, lastAddrWrite, profile, hasProfile, cpOp>>

\* variant: the other addresses keep their isDefault flag
UpsertListKeepsDefaults(list, editing, isDefault, freshId, st) ==
  LET newAddress == [id |-> IF editing # NoAddress THEN editing.id ELSE freshId,
                     isDefault |-> isDefault, street |-> st]
  IN IF editing # NoAddress THEN ReplaceById(list, newAddress)
     ELSE Append(list, newAddress)

\* the list handleAddOrUpdateAddress writes
UpsertList(list, editing, isDefault, freshId, st) ==
  LET newAddress == [id |-> IF editing # NoAddress THEN editing.id ELSE freshId,
                     isDefault |-> isDefault, street |-> st]
      cleared == IF isDefault THEN ClearDefaults(list) ELSE list
  IN IF editing # NoAddress THEN ReplaceById(cleared, newAddress)
     ELSE Append(cleared, newAddress)

\* ProfilePage.handleAddOrUpdateAddress with a successful update; st is the street in the form
handleAddOrUpdateAddress(s, st) ==
  /\ hasProfile[s] /\ FormOpen(s)
  /\ editingAddress[s] = NoAddress => nextAddrId <= MaxAddrIds
  /\ addrDb' = UpsertList(profile[s], editingAddress[s], isDefaultAddress[s], nextAddrId, st)
  /\ nextAddrId' = IF editingAddress[s] = NoAddress THEN nextAddrId + 1 ELSE nextAddrId
  /\ lastAddrWrite' = AddrWrite("upsert", isDefaultAddress[s])
  /\ isAddingAddress' = [isAddingAddress EXCEPT ![s] = FALSE]
  /\ editingAddress' = [editingAddress EXCEPT ![s] = NoAddress]
  /\ isDefaultAddress' = [isDefaultAddress EXCEPT ![s] = FALSE]
  /\ profile' = [profile EXCEPT ![s] = addrDb']       \* fetchProfileData()
  /\ UNCHANGED <<hasProfile, cpOp>>

\* ProfilePage.handleDeleteAddress with a successful update
handleDeleteAddress(s, id) ==
  /\ hasProfile[s] /\ ~FormOpen(s)
  /\ id \in IdsOf(profile[s])
  /\ addrDb' = RemoveById(profile[s], id)
  /\ lastAddrWrite' = AddrWrite("remove", FALSE)
  /\ profile' = [profile EXCEPT ![s] = addrDb']       \* fetchProfileData()
  /\ UNCHANGED <<nextAddrId, hasProfile, editingAddress, isAddingAddress,
                 isDefaultAddress, cpOp>>

NoCp == [st |-> "idle", addresses |-> <<>>]

\* AuthPopup.handleCompleteProfile up to the update: reads the current addresses
handleCompleteProfile ==
  /\ cpOp = NoCp
  /\ cpOp' = [st |-> "fetched", addresses |-> addrDb]
  /\ UNCHANGED <<addrDb, nextAddrId, lastAddrWrite, profile, hasProfile, editingAddress, isAddingAddress,
                 isDefaultAddress>>

\* the list handleCompleteProfile writes
CompleteProfileList(list, withAddress, isDefault, freshId) ==
  IF withAddress
  THEN Append(IF isDefault THEN ClearDefaults(list) ELSE list,
              [id |-> freshId, isDefault |-> isDefault, street |-> FormStreet])
  ELSE list

\* AuthPopup.handleCompleteProfile from the update on
handleCompleteProfileUpdate(withAddress, isDefault, ok) ==
  /\ cpOp.st = "fetched"
  /\ IF ok
     THEN /\ withAddress => nextAddrId <= MaxAddrIds
          /\ addrDb' = CompleteProfileList(cpOp.addresses, withAddress, isDefault, nextAddrId)
          /\ nextAddrId' = IF withAddress THEN nextAddrId + 1 ELSE nextAddrId
          /\ lastAddrWrite' = AddrWrite("complete", withAddress /\ isDefault)
     ELSE UNCHANGED <<addrDb, nextAddrId, lastAddrWrite>>
  /\ cpOp' = NoCp
  /\ UNCHANGED <<profile, hasProfile, editingAddress, isAddingAddress, isDefaultAddress>>

\* ------------------------------------------------------------------------
\* Cart page (cart/page.tsx)
\* ------------------------------------------------------------------------
SearchTerms == {"", "p1"}

\* product_name.toLowerCase().includes(searchTerm.toLowerCase()); a product's name is its id
NameIncludes(p, term) == term = "" \/ term = p

RECURSIVE RowsNewestFirst(_)
\* .order("created_at", { ascending: false }) with the joined products row
RowsNewestFirst(rows) ==
  IF rows = {} THEN <<>>
  ELSE LET r == CHOOSE x \in rows : \A y \in rows : y.id <= x.id
       IN <<[id |-> r.id, product_id |-> r.product_id, quantity |-> r.quantity,
             price_at_add |-> r.price_at_add,
             discount_price |-> catalog[r.product_id].discount_price,
             original_price |-> catalog[r.product_id].original_price]>>
          \o RowsNewestFirst(rows \ {r})

RECURSIVE FilterBySearch(_, _)
\* filteredCartItems
FilterBySearch(items, term) ==
  IF items = <<>> THEN <<>>
  ELSE IF NameIncludes(Head(items).product_id, term)
       THEN <<Head(items)>> \o FilterBySearch(Tail(items), term)
       ELSE FilterBySearch(Tail(items), term)

filteredCartItems == FilterBySearch(cartItems, searchTerm)

\* unitPrice = products?.discount_price ?? products?.original_price ?? price_at_add
unitPrice(item) == Coalesce(Coalesce(item.discount_price, item.original_price), item.price_at_add)

\* the `items` prop the host page passes to CheckoutDetailsModal at a render
ItemsProp(h, direct, filtered) ==
  IF h = "cart"
  THEN [i \in 1..Len(filtered) |->
          [productId |-> filtered[i].product_id, quantity |-> filtered[i].quantity,
           price_at_add |-> unitPrice(filtered[i])]]
  ELSE <<[productId |-> direct.product_id, quantity |-> direct.quantity,
          price_at_add |-> displayPrice(direct.product_id)]>>

RECURSIVE cartSubtotal(_)
\* CartPage: subtotal = filteredCartItems.reduce((sum, item) => sum + price * item.quantity, 0)
cartSubtotal(items) ==
  IF items = <<>> THEN 0
  ELSE unitPrice(Head(items)) * Head(items).quantity + cartSubtotal(Tail(items))

\* variant: a flat fee on every non-empty cart
cartShippingFeeFlat(sub) == IF sub > 0 THEN 99 ELSE 0

\* CartPage: shippingFee = subtotal > 0 && subtotal < 1000 ? 99 : 0
cartShippingFee(sub) == IF sub > 0 /\ sub < 1000 THEN 99 ELSE 0

\* CartPage: total = subtotal + shippingFee
cartTotal(items) == cartSubtotal(items) + cartShippingFee(cartSubtotal(items))

\* ------------------------------------------------------------------------
\* Checkout modal (CheckoutDetailsModal) and payment component (RazorpayPayment)
\* ------------------------------------------------------------------------
RECURSIVE subtotal(_)
\* items.reduce((sum, item) => sum + item.price_at_add * item.quantity, 0)
subtotal(items) ==
  IF items = <<>> THEN 0
  ELSE Head(items).price_at_add * Head(items).quantity + subtotal(Tail(items))

\* variant: the fee is also charged on a subtotal of exactly 1000
shippingFeeUpTo1000(sub) == IF sub > 0 /\ sub <= 1000 THEN 99 ELSE 0

\* shippingFee = subtotal > 0 && subtotal < 1000 ? 99 : 0
shippingFee(sub) == IF sub > 0 /\ sub < 1000 THEN 99 ELSE 0

totalAmount(items) == subtotal(items) + shippingFee(subtotal(items))

\* selectedAddressId: null, "new", or an address id
NoSel == 0
NewSel == -1

\* the product whose page the checkout tab shows when it is on a product page
PageProduct == "p1"

\* ProductDetails: quantity starts at 1
NoDirect == [product_id |-> PageProduct, quantity |-> 1]

\* profile.addresses.find((addr) => addr.isDefault) || profile.addresses[0]
DefaultOrFirst(list) ==
  IF Defaults(list) # {}
  THEN list[CHOOSE i \in Defaults(list) : \A j \in Defaults(list) : i <= j]
  ELSE list[1]

\* fetchUserProfile: the selection the modal starts with
InitialSelection(list) == IF Len(list) > 0 THEN DefaultOrFirst(list).id ELSE NewSel

\* variant: the gateway is handed the subtotal, without the shipping fee
NewCheckoutSubtotal(h, items, addresses, sel, oid) ==
  [st |-> "open", live |-> TRUE, host |-> h, amount |-> subtotal(items), items |-> items,
   userAddresses |-> addresses, selectedAddressId |-> sel, orderId |-> oid, log |-> <<>>]

\* a gateway checkout opened at a render keeps that render's handlers and props
NewCheckout(h, items, addresses, sel, oid) ==
  [st |-> "open", live |-> TRUE, host |-> h, amount |-> totalAmount(items), items |-> items,
   userAddresses |-> addresses, selectedAddressId |-> sel, orderId |-> oid, log |-> <<>>]

\* the callbacks of unmounted modal instances no longer reach the modal state
Unmounted(g) == [i \in 1..Len(g) |-> [g[i] EXCEPT !.live = FALSE]]

\* mounting the modal: fresh state, then fetchUserProfile
MountModal ==
  /\ userAddresses' = addrDb
  /\ selectedAddressId' = InitialSelection(addrDb)
  /\ showRazorpay' = FALSE
  /\ isReady' = FALSE
  /\ orderId' = 0

\* the RazorpayPayment effect: new window.Razorpay(options).open()
RazorpayOpen(g, sel, oid) ==
  /\ Len(g) < MaxOpens
  /\ gw' = Append(g, NewCheckout(host, ItemsProp(host, directItem, filteredCartItems),
                                 userAddresses, sel, oid))

\* CartPage.fetchCartItems (mount, auth change, any cart_items change): the loading screen
\* unmounts the modal, which mounts again afterwards if showCheckoutModal is still true
fetchCartItems ==
  /\ cartItems' = RowsNewestFirst({r \in cartDb : r.user_id = User})
  /\ IF host = "cart"
     THEN /\ MountModal
          /\ gw' = Unmounted(gw)
     ELSE UNCHANGED <<userAddresses, selectedAddressId, showRazorpay, isReady, orderId, gw>>
  /\ UNCHANGED <<searchTerm, host, directItem, nAttempts>>
  /\ UNCHANGED dbVars

\* Header onSearch
setSearchTerm(term) ==
  /\ host = "none"
  /\ term # searchTerm
  /\ searchTerm' = term
  /\ UNCHANGED <<cartItems, modalVars, gw>>
  /\ UNCHANGED dbVars

\* variant: without the early return on newQuantity < 1
handleQuantityChangeAnyQuantity(itemId, newQuantity, ok) ==
  /\ host = "none"
  /\ \E k \in 1..Len(cartItems) : cartItems[k].id = itemId
  /\ IF ~ok
     THEN UNCHANGED <<cartDb, cartItems>>
     ELSE /\ cartDb' = {IF r.id = itemId /\ r.user_id = User
                        THEN [r EXCEPT !.quantity = newQuantity] ELSE r : r \in cartDb}
          /\ cartItems' = [k \in 1..Len(cartItems) |->
                             IF cartItems[k].id = itemId
                             THEN [cartItems[k] EXCEPT !.quantity = newQuantity]
                             ELSE cartItems[k]]
  /\ UNCHANGED <<searchTerm, modalVars, gw>>
  /\ UNCHANGED <<orders, nextCartId, addrDb, nextAddrId, lastAddrWrite>>

\* CartPage.handleQuantityChange of a listed line (the +/- buttons)
handleQuantityChange(itemId, newQuantity, ok) ==
  /\ host = "none"
  /\ \E k \in 1..Len(cartItems) : cartItems[k].id = itemId
  /\ IF newQuantity < 1 \/ ~ok
     THEN UNCHANGED <<cartDb, cartItems>>
     ELSE /\ cartDb' = {IF r.id = itemId /\ r.user_id = User
                        THEN [r EXCEPT !.quantity = newQuantity] ELSE r : r \in cartDb}
          /\ cartItems' = [k \in 1..Len(cartItems) |->
                             IF cartItems[k].id = itemId
                             THEN [cartItems[k] EXCEPT !.quantity = newQuantity]
                             ELSE cartItems[k]]
  /\ UNCHANGED <<searchTerm, modalVars, gw>>
  /\ UNCHANGED <<orders, nextCartId, addrDb, nextAddrId, lastAddrWrite>>

RECURSIVE WithoutItem(_, _)
\* prev.filter((item) => item.id !== itemId)
WithoutItem(items, itemId) ==
  IF items = <<>> THEN <<>>
  ELSE IF Head(items).id = itemId THEN WithoutItem(Tail(items), itemId)
       ELSE <<Head(items)>> \o WithoutItem(Tail(items), itemId)

\* CartPage.handleRemoveItem of a listed line
handleRemoveItem(itemId, ok) ==
  /\ host = "none"
  /\ \E k \in 1..Len(cartItems) : cartItems[k].id = itemId
  /\ IF ok
     THEN /\ cartDb' = {r \in cartDb : ~(r.id = itemId /\ r.user_id = User)}
          /\ cartItems' = WithoutItem(cartItems, itemId)
     ELSE UNCHANGED <<cartDb, cartItems>>
  /\ UNCHANGED <<searchTerm, modalVars, gw>>
  /\ UNCHANGED <<orders, nextCartId, addrDb, nextAddrId, lastAddrWrite>>

\* CartPage.handleProceedToCheckout
handleProceedToCheckout ==
  /\ host = "none"
  /\ nAttempts < MaxAttempts          \* checkouts are started while a submit remains
  /\ Len(filteredCartItems) # 0
  /\ host' = "cart"
  /\ MountModal
  /\ UNCHANGED <<cartItems, searchTerm, directItem, nAttempts, gw>>
  /\ UNCHANGED dbVars

\* ProductDetails.handleDirectBuy
handleDirectBuy(p, q) ==
  /\ host = "none"
  /\ nAttempts < MaxAttempts          \* checkouts are started while a submit remains
  /\ host' = "direct"
  /\ directItem' = [product_id |-> p, quantity |-> q]
  /\ MountModal
  /\ UNCHANGED <<cartItems, searchTerm, nAttempts, gw>>
  /\ UNCHANGED dbVars

\* Dialog onOpenChange -> onClose
CloseCheckoutModal ==
  /\ host # "none"
  /\ host' = "none"
  /\ showRazorpay' = FALSE
  /\ isReady' = FALSE
  /\ gw' = Unmounted(gw)
  /\ UNCHANGED <<cartItems, searchTerm, directItem, userAddresses, selectedAddressId,
                 orderId, nAttempts>>
  /\ UNCHANGED dbVars

handleAddressSelectionChange(value) ==
  /\ host # "none"
  /\ value \in IdsOf(userAddresses) \cup {NewSel}
  /\ value # selectedAddressId
  /\ selectedAddressId' = value
  /\ IF showRazorpay /\ isReady
     THEN RazorpayOpen(gw, value, orderId)
     ELSE UNCHANGED gw
  /\ UNCHANGED <<cartItems, searchTerm, host, directItem, userAddresses, showRazorpay,
                 isReady, orderId, nAttempts>>
  /\ UNCHANGED dbVars

\* handleFormSubmit that passes validation
handleFormSubmit(formComplete) ==
  /\ host # "none"
  /\ ~(selectedAddressId = NewSel /\ ~formComplete)
  /\ selectedAddressId # NoSel
  /\ nAttempts < MaxAttempts
  /\ nAttempts' = nAttempts + 1
  /\ orderId' = nAttempts + 1
  /\ showRazorpay' = TRUE
  /\ IF showRazorpay /\ isReady
     THEN RazorpayOpen(gw, selectedAddressId, nAttempts + 1)
     ELSE UNCHANGED gw
  /\ UNCHANGED <<cartItems, searchTerm, host, directItem, userAddresses, selectedAddressId,
                 isReady>>
  /\ UNCHANGED dbVars

\* Script onLoad -> setIsReady(true) -> effect
ScriptOnLoad ==
  /\ showRazorpay /\ ~isReady
  /\ isReady' = TRUE
  /\ RazorpayOpen(gw, selectedAddressId, orderId)
  /\ UNCHANGED <<cartItems, searchTerm, host, directItem, userAddresses, selectedAddressId,
                 showRazorpay, orderId, nAttempts>>
  /\ UNCHANGED dbVars

\* ProductDetails.fetchReviews (mount, any change of the product's reviews): setReviews
\* renders the page and with it the checkout modal again. The modal passes a new prefill
\* object and a new handlePaymentSuccess at every render, so the RazorpayPayment effect,
\* which depends on both, runs again once the script is ready. The reviews list itself
\* is not part of the state, so only that case is a step.
fetchReviews ==
  /\ host = "direct"
  /\ showRazorpay /\ isReady
  /\ Len(gw) < MaxOpens + MaxReopens
  /\ gw' = Append(gw, NewCheckout(host, ItemsProp(host, directItem, filteredCartItems),
                                  userAddresses, selectedAddressId, orderId))
  /\ UNCHANGED <<cartItems, searchTerm, host, directItem, userAddresses, selectedAddressId,
                 showRazorpay, isReady, orderId, nAttempts>>
  /\ UNCHANGED dbVars

\* handlePaymentFailure: setShowRazorpay(false) unmounts RazorpayPayment
PaymentFailureState(live) ==
  IF live
  THEN showRazorpay' = FALSE /\ isReady' = FALSE
  ELSE UNCHANGED <<showRazorpay, isReady>>

\* Script onError -> onFailure
ScriptOnError ==
  /\ showRazorpay /\ ~isReady
  /\ PaymentFailureState(TRUE)
  /\ UNCHANGED <<cartItems, searchTerm, host, directItem, userAddresses, selectedAddressId,
                 orderId, nAttempts, gw>>
  /\ UNCHANGED dbVars

\* variant: the failure handler empties the shopper's cart
handlePaymentFailureClearsCart(i) ==
  /\ gw[i].st = "open"
  /\ gw' = [gw EXCEPT ![i].st = "failed"]
  /\ PaymentFailureState(gw[i].live)
  /\ cartDb' = {r \in cartDb : r.user_id # User}
  /\ UNCHANGED <<cartItems, searchTerm, host, directItem, userAddresses, selectedAddressId,
                 orderId, nAttempts>>
  /\ UNCHANGED <<orders, nextCartId, addrDb, nextAddrId, lastAddrWrite>>

\* razorpay.on("payment.failed") -> onFailure -> handlePaymentFailure
handlePaymentFailure(i) ==
  /\ gw[i].st = "open"
  /\ gw' = [gw EXCEPT ![i].st = "failed"]
  /\ PaymentFailureState(gw[i].live)
  /\ UNCHANGED <<cartItems, searchTerm, host, directItem, userAddresses, selectedAddressId,
                 orderId, nAttempts>>
  /\ UNCHANGED <<orders, cartDb, nextCartId, addrDb, nextAddrId, lastAddrWrite>>

\* the user closes the gateway checkout: no callback is registered for it
GatewayDismissed(i) ==
  /\ gw[i].st = "open"
  /\ gw' = [gw EXCEPT ![i].st = "dismissed"]
  /\ UNCHANGED <<cartPageVars, modalVars>>
  /\ UNCHANGED <<orders, cartDb, nextCartId, addrDb, nextAddrId, lastAddrWrite>>

\* currentShippingAddress of handlePaymentSuccess
HasShippingAddress(c) ==
  c.selectedAddressId = NewSel \/ c.selectedAddressId \in IdsOf(c.userAddresses)

\* currentShippingAddress.street of handlePaymentSuccess
shippingStreet(c) ==
  IF c.selectedAddressId = NewSel THEN FormStreet
  ELSE LET k == CHOOSE i \in 1..Len(c.userAddresses) :
                  c.userAddresses[i].id = c.selectedAddressId
       IN c.userAddresses[k].street

\* updatedAddressesForProfile of handlePaymentSuccess
updatedAddressesForProfile(c, freshId) ==
  IF c.selectedAddressId = NewSel
  THEN Append(ClearDefaults(c.userAddresses),
              [id |-> freshId, isDefault |-> TRUE, street |-> FormStreet])
  ELSE [i \in 1..Len(c.userAddresses) |->
          [c.userAddresses[i] EXCEPT !.isDefault = (c.userAddresses[i].id = c.selectedAddressId)]]

\* handler of the gateway checkout -> onSuccess -> handlePaymentSuccess, up to the
\* profile update
handlePaymentSuccess(i, hasSession) ==
  /\ gw[i].st = "open"
  /\ IF ~hasSession
     THEN /\ gw' = [gw EXCEPT ![i].st = "noauth"]
          /\ UNCHANGED <<showRazorpay, isReady>>
     ELSE IF ~HasShippingAddress(gw[i])
          THEN /\ gw' = [gw EXCEPT ![i].st = "error"]
               /\ PaymentFailureState(gw[i].live)
          ELSE /\ gw' = [gw EXCEPT ![i].st = "profile"]
               /\ UNCHANGED <<showRazorpay, isReady>>
  /\ UNCHANGED <<cartItems, searchTerm, host, directItem, userAddresses, selectedAddressId,
                 orderId, nAttempts>>
  /\ UNCHANGED <<orders, cartDb, nextCartId, addrDb, nextAddrId, lastAddrWrite>>

\* handlePaymentSuccess: user_profiles.update({name, phone, addresses}); an error is ignored
PaymentProfileUpdate(i, ok) ==
  /\ gw[i].st = "profile"
  /\ IF ok
     THEN /\ gw[i].selectedAddressId = NewSel => nextAddrId <= MaxAddrIds
          /\ addrDb' = updatedAddressesForProfile(gw[i], nextAddrId)
          /\ nextAddrId' = IF gw[i].selectedAddressId = NewSel THEN nextAddrId + 1 ELSE nextAddrId
          /\ lastAddrWrite' = AddrWrite("checkout", gw[i].selectedAddressId = NewSel)
          /\ gw' = [gw EXCEPT ![i].st = "insert", ![i].log = Append(@, "address")]
     ELSE /\ gw' = [gw EXCEPT ![i].st = "insert", ![i].log = Append(@, "address_error")]
          /\ UNCHANGED <<addrDb, nextAddrId, lastAddrWrite>>
  /\ UNCHANGED <<cartPageVars, modalVars>>
  /\ UNCHANGED <<orders, cartDb, nextCartId>>

\* paid checkouts handed to a manual-intervention queue: the catch block of
\* handlePaymentSuccess writes console.error and a toast, and the no-session branch a
\* toast; neither stores anything
EscalatedPayments == {}

\* orderItemsData
orderItemsData(items) ==
  [k \in 1..Len(items) |->
     [product_id |-> items[k].productId, quantity |-> items[k].quantity,
      price_at_purchase |-> items[k].price_at_add]]

\* variant: onOrderSuccess() is called whether or not the insert succeeded
PaymentOrderInsertAlwaysSucceeds(i, ok) ==
  /\ gw[i].st = "insert"
  /\ orders' = IF ok
               THEN Append(orders, OrderRow(totalAmount(gw[i].items),
                                            orderItemsData(gw[i].items), i, gw[i].orderId,
                                            shippingStreet(gw[i])))
               ELSE orders
  /\ LET next == IF gw[i].host = "cart" THEN "clear" ELSE "done"
         log == IF ok THEN Append(gw[i].log, "order") ELSE gw[i].log IN
       IF host = gw[i].host
       THEN /\ host' = "none"
            /\ showRazorpay' = FALSE
            /\ isReady' = FALSE
            /\ gw' = [Unmounted(gw) EXCEPT ![i].st = next, ![i].log = log]
       ELSE /\ gw' = [gw EXCEPT ![i].st = next, ![i].log = log]
            /\ UNCHANGED <<host, showRazorpay, isReady>>
  /\ UNCHANGED <<cartItems, searchTerm, directItem, userAddresses, selectedAddressId,
                 orderId, nAttempts>>
  /\ UNCHANGED <<cartDb, nextCartId, addrDb, nextAddrId, lastAddrWrite>>

\* handlePaymentSuccess: orders.insert([orderData]); on success the modal is closed and
\* onOrderSuccess() is called, on an error the catch block only reports it
PaymentOrderInsert(i, ok) ==
  /\ gw[i].st = "insert"
  /\ IF ok
     THEN /\ orders' = Append(orders, OrderRow(totalAmount(gw[i].items),
                                               orderItemsData(gw[i].items), i, gw[i].orderId,
                                               shippingStreet(gw[i])))
          /\ LET next == IF gw[i].host = "cart" THEN "clear" ELSE "done" IN
               IF host = gw[i].host
               THEN /\ host' = "none"
                    /\ showRazorpay' = FALSE
                    /\ isReady' = FALSE
                    /\ gw' = [Unmounted(gw) EXCEPT ![i].st = next, ![i].log = Append(@, "order")]
               ELSE /\ gw' = [gw EXCEPT ![i].st = next, ![i].log = Append(@, "order")]
                    /\ UNCHANGED <<host, showRazorpay, isReady>>
     ELSE /\ gw' = [gw EXCEPT ![i].st = "error"]
          /\ PaymentFailureState(gw[i].live)
          /\ UNCHANGED <<orders, host>>
  /\ UNCHANGED <<cartItems, searchTerm, directItem, userAddresses, selectedAddressId,
                 orderId, nAttempts>>
  /\ UNCHANGED <<cartDb, nextCartId, addrDb, nextAddrId, lastAddrWrite>>

\* variant: the clear deletes the cart lines of every user
handleOrderSuccessAllUsers(i, ok) ==
  /\ gw[i].st = "clear"
  /\ IF ok
     THEN /\ cartDb' = {}
          /\ cartItems' = <<>>
          /\ gw' = [gw EXCEPT ![i].st = "done", ![i].log = Append(@, "cart")]
     ELSE /\ gw' = [gw EXCEPT ![i].st = "done"]
          /\ UNCHANGED <<cartDb, cartItems>>
  /\ UNCHANGED <<searchTerm, modalVars>>
  /\ UNCHANGED <<orders, nextCartId, addrDb, nextAddrId, lastAddrWrite>>

\* CartPage.handleOrderSuccess: cart_items.delete().eq("user_id", userId), then /orders
handleOrderSuccess(i, ok) ==
  /\ gw[i].st = "clear"
  /\ IF ok
     THEN /\ cartDb' = {r \in cartDb : r.user_id # User}
          /\ cartItems' = <<>>
          /\ gw' = [gw EXCEPT ![i].st = "done", ![i].log = Append(@, "cart")]
     ELSE /\ gw' = [gw EXCEPT ![i].st = "done"]
          /\ UNCHANGED <<cartDb, cartItems>>
  /\ UNCHANGED <<searchTerm, modalVars>>
  /\ UNCHANGED <<orders, nextCartId, addrDb, nextAddrId, lastAddrWrite>>

\* ------------------------------------------------------------------------
\* Specifications
\* ------------------------------------------------------------------------
InitVendor ==
  /\ vOrders = [v \in Vendors |-> <<>>]
  /\ selectedOrder = [v \in Vendors |-> NoOrder]
  /\ modalOpen = [v \in Vendors |-> FALSE]
  /\ isUpdating = [v \in Vendors |-> FALSE]
  /\ upd = [v \in Vendors |-> Idle]
  /\ rtQueue = [v \in Vendors |-> <<>>]
  /\ nWrites = 0
  /\ applied = {}

InitSocial ==
  /\ favDb = {}
  /\ nextFavId = 1
  /\ isFav = [w \in FavViews |-> FALSE]
  /\ reviewsDb = {}
  /\ nextReviewId = 1
  /\ reviewOp = [s \in ReviewTabs |-> Idle]
  /\ hasReviewed = [s \in ReviewTabs |-> FALSE]

InitCartTabs ==
  /\ catalog = InitCatalog
  /\ cartDb = {}
  /\ nextCartId = 1
  /\ addOp = [s \in CartTabs |-> NoOp]
  /\ inCartLocal = [s \in CartTabs |-> {}]

InitAddrBook ==
  /\ addrDb = <<>>
  /\ nextAddrId = 1
  /\ lastAddrWrite = AddrWrite("none", FALSE)
  /\ profile = [s \in ProfileTabs |-> <<>>]
  /\ hasProfile = [s \in ProfileTabs |-> FALSE]
  /\ editingAddress = [s \in ProfileTabs |-> NoAddress]
  /\ isAddingAddress = [s \in ProfileTabs |-> FALSE]
  /\ isDefaultAddress = [s \in ProfileTabs |-> FALSE]
  /\ cpOp = NoCp

InitCheckoutTab ==
  /\ cartItems = <<>>
  /\ searchTerm = ""
  /\ host = "none"
  /\ directItem = NoDirect
  /\ userAddresses = <<>>
  /\ selectedAddressId = NoSel
  /\ showRazorpay = FALSE
  /\ isReady = FALSE
  /\ orderId = 0
  /\ nAttempts = 0
  /\ gw = <<>>

checkoutVars == <<cartItems, searchTerm, host, directItem, userAddresses, selectedAddressId,
                  showRazorpay, isReady, orderId, nAttempts, gw>>

\* --- vendor dashboard: two sessions on one placed order
InitStatus ==
  /\ orders = <<OrderRow(1000, <<[product_id |-> "p1", quantity |-> 2, price_at_purchase |-> 500]>>, 1, 1, FormStreet)>>
  /\ InitVendor /\ InitSocial /\ InitCartTabs /\ InitAddrBook /\ InitCheckoutTab

StatusFrame == UNCHANGED <<cartVars, addrDbVars, profileVars, checkoutVars, favVars, reviewVars>>

NextStatus ==
  \/ \E v \in Vendors : fetchCompanyOrders(v) /\ StatusFrame
  \/ \E v \in Vendors : \E id \in 1..Len(orders) : OpenUpdateModal(v, id) /\ StatusFrame
  \/ \E v \in Vendors : CloseUpdateModal(v) /\ StatusFrame
  \/ \E v \in Vendors : \E s \in AllStatuses : handleStatusUpdate(v, s) /\ StatusFrame
  \/ \E v \in Vendors : \E ok \in BOOLEAN : OrdersUpdate(v, ok) /\ StatusFrame
  \/ \E v \in Vendors : handleStatusUpdateDone(v) /\ StatusFrame
  \/ \E v \in Vendors : OrderChannelUpdate(v) /\ StatusFrame

SpecStatus == InitStatus /\ [][NextStatus]_vars

\* --- one dashboard session, with orders that can be cancelled out of band
VendorSteps(v) ==
  \/ fetchCompanyOrders(v) /\ StatusFrame
  \/ \E id \in 1..Len(orders) : OpenUpdateModal(v, id) /\ StatusFrame
  \/ CloseUpdateModal(v) /\ StatusFrame
  \/ \E s \in AllStatuses : handleStatusUpdate(v, s) /\ StatusFrame
  \/ \E ok \in BOOLEAN : OrdersUpdate(v, ok) /\ StatusFrame
  \/ handleStatusUpdateDone(v) /\ StatusFrame
  \/ OrderChannelUpdate(v) /\ StatusFrame

NextCancel ==
  \/ VendorSteps("v1")
  \/ \E id \in 1..Len(orders) : CancelOrder(id) /\ StatusFrame

SpecCancel == InitStatus /\ [][NextCancel]_vars

\* --- cart: a product-details tab and a favorites tab of one shopper
InitCart ==
  /\ orders = <<>>
  /\ InitVendor /\ InitSocial /\ InitCartTabs /\ InitAddrBook /\ InitCheckoutTab

CartFrame == UNCHANGED <<statusVars, addrDbVars, profileVars, checkoutVars, favVars, reviewVars>>

NextCart ==
  \/ \E p \in Products : fetchUserData(p) /\ CartFrame
  \/ fetchFavorites /\ CartFrame
  \/ \E p \in Products : \E q \in 1..MaxQty : \E f \in BOOLEAN :
       pdHandleAddToCart(p, q, f) /\ CartFrame
  \/ \E p \in Products : \E f \in BOOLEAN : favHandleAddToCart(p, f) /\ CartFrame
  \/ \E s \in CartTabs : \E ok \in BOOLEAN : AddToCartInsert(s, ok) /\ CartFrame
  \/ \E p \in Products : \E ok \in BOOLEAN : handleRemoveFromCart(p, ok) /\ CartFrame

SpecCart == InitCart /\ [][NextCart]_vars

\* --- checkout: one checkout tab (cart page or product page) next to a favorites tab
InitCheckout ==
  /\ orders = <<>>
  /\ InitVendor /\ InitSocial /\ InitCartTabs /\ InitAddrBook /\ InitCheckoutTab

CheckoutFrame == UNCHANGED <<vendorVars, catalog, addOp, inCartLocal, profileVars, favVars, reviewVars>>

ModalSteps ==
  \/ \E q \in 1..MaxQty : handleDirectBuy(PageProduct, q) /\ CheckoutFrame
  \/ CloseCheckoutModal /\ CheckoutFrame
  \/ \E a \in (1..MaxAddrIds) \cup {NewSel} : handleAddressSelectionChange(a) /\ CheckoutFrame
  \/ \E c \in BOOLEAN : handleFormSubmit(c) /\ CheckoutFrame
  \/ ScriptOnLoad /\ CheckoutFrame
  \/ \E i \in 1..Len(gw) : \E a \in BOOLEAN : handlePaymentSuccess(i, a) /\ CheckoutFrame
  \/ \E i \in 1..Len(gw) : \E ok \in BOOLEAN : PaymentProfileUpdate(i, ok) /\ CheckoutFrame
  \/ \E i \in 1..Len(gw) : \E ok \in BOOLEAN : PaymentOrderInsert(i, ok) /\ CheckoutFrame

NextCheckout ==
  \/ ModalSteps
  \/ handleProceedToCheckout /\ CheckoutFrame
  \/ ScriptOnError /\ CheckoutFrame
  \/ \E i \in 1..Len(gw) : handlePaymentFailure(i) /\ CheckoutFrame
  \/ \E i \in 1..Len(gw) : GatewayDismissed(i) /\ CheckoutFrame
  \/ \E i \in 1..Len(gw) : \E ok \in BOOLEAN : handleOrderSuccess(i, ok) /\ CheckoutFrame
  \/ fetchCartItems /\ CheckoutFrame
  \/ \E t \in SearchTerms : setSearchTerm(t) /\ CheckoutFrame
  \/ \E p \in Products : \E f \in BOOLEAN : favHandleAddToCart(p, f) /\ CartFrame
  \/ \E ok \in BOOLEAN : AddToCartInsert("fav", ok) /\ CartFrame

SpecCheckout == InitCheckout /\ [][NextCheckout]_vars

\* --- cart page and checkout of one shopper while a vendor edits product prices
\* the shopper has added both products at the catalog prices of InitCatalog
InitPricing ==
  /\ orders = <<>>
  /\ InitVendor /\ InitSocial /\ InitAddrBook /\ InitCheckoutTab
  /\ catalog = InitCatalog
  /\ cartDb = {[id |-> 1, user_id |-> User, product_id |-> "p1", quantity |-> 1,
                price_at_add |-> 500],
               [id |-> 2, user_id |-> User, product_id |-> "p2", quantity |-> 1,
                price_at_add |-> 200]}
  /\ nextCartId = 3
  /\ addOp = [s \in CartTabs |-> NoOp]
  /\ inCartLocal = [s \in CartTabs |-> {}]

NextPricing ==
  \/ fetchCartItems /\ CheckoutFrame
  \/ \E t \in SearchTerms : setSearchTerm(t) /\ CheckoutFrame
  \/ \E p \in Products : \E c \in PriceChoices : handleSaveProduct(p, c) /\ CartFrame
  \/ \E id \in 1..MaxCartRows : \E q \in 0..MaxQty : \E ok \in BOOLEAN :
       handleQuantityChange(id, q, ok) /\ CheckoutFrame
  \/ \E id \in 1..MaxCartRows : \E ok \in BOOLEAN : handleRemoveItem(id, ok) /\ CheckoutFrame
  \/ handleProceedToCheckout /\ CheckoutFrame
  \/ CloseCheckoutModal /\ CheckoutFrame
  \/ \E c \in BOOLEAN : handleFormSubmit(c) /\ CheckoutFrame
  \/ ScriptOnLoad /\ CheckoutFrame
  \/ \E i \in 1..Len(gw) : \E a \in BOOLEAN : handlePaymentSuccess(i, a) /\ CheckoutFrame
  \/ \E i \in 1..Len(gw) : \E ok \in BOOLEAN : PaymentProfileUpdate(i, ok) /\ CheckoutFrame
  \/ \E i \in 1..Len(gw) : \E ok \in BOOLEAN : PaymentOrderInsert(i, ok) /\ CheckoutFrame
  \/ \E i \in 1..Len(gw) : \E ok \in BOOLEAN : handleOrderSuccess(i, ok) /\ CheckoutFrame

SpecPricing == InitPricing /\ [][NextPricing]_vars

\* --- the details step of the checkout modal, with the shopper's cart also open in a
\* product-details tab
InitSubmit ==
  /\ orders = <<>>
  /\ InitVendor /\ InitSocial /\ InitAddrBook /\ InitCheckoutTab
  /\ catalog = InitCatalog
  /\ cartDb = {[id |-> 1, user_id |-> User, product_id |-> "p1", quantity |-> 1,
                price_at_add |-> 500]}
  /\ nextCartId = 2
  /\ addOp = [s \in CartTabs |-> NoOp]
  /\ inCartLocal = [s \in CartTabs |-> IF s = "pd" THEN {"p1"} ELSE {}]

NextSubmit ==
  \/ \E p \in Products : fetchUserData(p) /\ CartFrame
  \/ \E p \in Products : \E ok \in BOOLEAN : handleRemoveFromCart(p, ok) /\ CartFrame
  \/ fetchCartItems /\ CheckoutFrame
  \/ \E t \in SearchTerms : setSearchTerm(t) /\ CheckoutFrame
  \/ handleProceedToCheckout /\ CheckoutFrame
  \/ \E q \in 1..MaxQty : handleDirectBuy(PageProduct, q) /\ CheckoutFrame
  \/ CloseCheckoutModal /\ CheckoutFrame
  \/ \E a \in (1..MaxAddrIds) \cup {NewSel} : handleAddressSelectionChange(a) /\ CheckoutFrame
  \/ \E c \in BOOLEAN : handleFormSubmit(c) /\ CheckoutFrame
  \/ ScriptOnLoad /\ CheckoutFrame
  \/ ScriptOnError /\ CheckoutFrame
  \/ \E i \in 1..Len(gw) : handlePaymentFailure(i) /\ CheckoutFrame
  \/ \E i \in 1..Len(gw) : GatewayDismissed(i) /\ CheckoutFrame
  \/ \E i \in 1..Len(gw) : \E a \in BOOLEAN : handlePaymentSuccess(i, a) /\ CheckoutFrame
  \/ \E i \in 1..Len(gw) : \E ok \in BOOLEAN : PaymentProfileUpdate(i, ok) /\ CheckoutFrame
  \/ \E i \in 1..Len(gw) : \E ok \in BOOLEAN : PaymentOrderInsert(i, ok) /\ CheckoutFrame
  \/ \E i \in 1..Len(gw) : \E ok \in BOOLEAN : handleOrderSuccess(i, ok) /\ CheckoutFrame

SpecSubmit == InitSubmit /\ [][NextSubmit]_vars

\* --- the checkout of SpecSubmit on a product page whose reviews change meanwhile
NextReopen ==
  \/ NextSubmit
  \/ fetchReviews /\ CheckoutFrame

SpecReopen == InitSubmit /\ [][NextReopen]_vars

\* --- the shopper's cart page and checkout next to a vendor dashboard, with a cart line
\* of another user in the table
OtherUser == "u2"

InitOwner ==
  /\ orders = <<>>
  /\ InitVendor /\ InitSocial /\ InitAddrBook /\ InitCheckoutTab
  /\ catalog = InitCatalog
  /\ cartDb = {[id |-> 0, user_id |-> OtherUser, product_id |-> "p1", quantity |-> 1,
                price_at_add |-> 500]}
  /\ nextCartId = 1
  /\ addOp = [s \in CartTabs |-> NoOp]
  /\ inCartLocal = [s \in CartTabs |-> {}]

NextOwner ==
  \/ favHandleAddToCart(PageProduct, FALSE) /\ CartFrame
  \/ AddToCartInsert("fav", TRUE) /\ CartFrame
  \/ fetchCartItems /\ CheckoutFrame
  \/ \E id \in 1..MaxCartRows : \E q \in 0..MaxQty :
       handleQuantityChange(id, q, TRUE) /\ CheckoutFrame
  \/ \E id \in 1..MaxCartRows : \E ok \in BOOLEAN : handleRemoveItem(id, ok) /\ CheckoutFrame
  \/ handleProceedToCheckout /\ CheckoutFrame
  \/ handleFormSubmit(TRUE) /\ CheckoutFrame
  \/ ScriptOnLoad /\ CheckoutFrame
  \/ \E i \in 1..Len(gw) : handlePaymentSuccess(i, TRUE) /\ CheckoutFrame
  \/ \E i \in 1..Len(gw) : PaymentProfileUpdate(i, TRUE) /\ CheckoutFrame
  \/ \E i \in 1..Len(gw) : PaymentOrderInsert(i, TRUE) /\ CheckoutFrame
  \/ \E i \in 1..Len(gw) : \E ok \in BOOLEAN : handleOrderSuccess(i, ok) /\ CheckoutFrame
  \/ VendorSteps("v1")

SpecOwner == InitOwner /\ [][NextOwner]_vars

\* --- favorites and reviews of one user for one product: three heart buttons, and the
\* product page in two sessions
InitFavReview ==
  /\ orders = <<>>
  /\ InitVendor /\ InitSocial /\ InitCartTabs /\ InitAddrBook /\ InitCheckoutTab

FavFrame == UNCHANGED <<statusVars, cartVars, addrDbVars, profileVars, checkoutVars, reviewVars>>

NextFav ==
  \/ \E w \in FavViews : checkUserAndFavStatus(w) /\ FavFrame
  \/ \E w \in FavViews : \E ok \in BOOLEAN : toggleFav(w, ok) /\ FavFrame

ReviewFrame == UNCHANGED <<statusVars, cartVars, addrDbVars, profileVars, checkoutVars, favVars>>

NextReview ==
  \/ \E s \in ReviewTabs : fetchReviewStatus(s) /\ ReviewFrame
  \/ \E s \in ReviewTabs : \E f \in BOOLEAN : handleReviewSubmit(s, f) /\ ReviewFrame
  \/ \E s \in ReviewTabs : \E ok \in BOOLEAN : ReviewInsert(s, ok) /\ ReviewFrame

NextFavReview == NextFav \/ NextReview

SpecFavReview == InitFavReview /\ [][NextFavReview]_vars

\* --- address book: the profile page in two tabs and the profile-completion popup
InitAddr ==
  /\ orders = <<>>
  /\ InitVendor /\ InitSocial /\ InitCartTabs /\ InitAddrBook /\ InitCheckoutTab

AddrFrame == UNCHANGED <<statusVars, cartVars, checkoutVars, favVars, reviewVars>>

ProfileSteps(s) ==
  \/ fetchProfileData(s) /\ AddrFrame
  \/ AddNewAddressClick(s) /\ AddrFrame
  \/ \E i \in 1..MaxAddrIds : openEditAddressForm(s, i) /\ AddrFrame
  \/ \E b \in BOOLEAN : setIsDefaultAddress(s, b) /\ AddrFrame
  \/ CancelAddressForm(s) /\ AddrFrame
  \/ handleAddOrUpdateAddress(s, FormStreet) /\ AddrFrame
  \/ \E id \in 1..MaxAddrIds : handleDeleteAddress(s, id) /\ AddrFrame

PopupSteps ==
  \/ handleCompleteProfile /\ AddrFrame
  \/ \E w \in BOOLEAN : \E d \in BOOLEAN : \E ok \in BOOLEAN :
       handleCompleteProfileUpdate(w, d, ok) /\ AddrFrame

NextProfile ==
  \/ \E s \in ProfileTabs : ProfileSteps(s)
  \/ PopupSteps

SpecProfile == InitAddr /\ [][NextProfile]_vars

\* --- address book: every writer of user_profiles.addresses of one shopper, i.e. the
\* profile page, the profile-completion popup and a direct-buy checkout
NextAddr ==
  \/ ProfileSteps("pf1")
  \/ PopupSteps
  \/ handleDirectBuy(PageProduct, 1) /\ CheckoutFrame
  \/ CloseCheckoutModal /\ CheckoutFrame
  \/ \E a \in (1..MaxAddrIds) \cup {NewSel} : handleAddressSelectionChange(a) /\ CheckoutFrame
  \/ handleFormSubmit(TRUE) /\ CheckoutFrame
  \/ ScriptOnLoad /\ CheckoutFrame
  \/ \E i \in 1..Len(gw) : handlePaymentSuccess(i, TRUE) /\ CheckoutFrame
  \/ \E i \in 1..Len(gw) : \E ok \in BOOLEAN : PaymentProfileUpdate(i, ok) /\ CheckoutFrame
  \/ \E i \in 1..Len(gw) : PaymentOrderInsert(i, TRUE) /\ CheckoutFrame

SpecAddr == InitAddr /\ [][NextAddr]_vars

\* --- a placed order: the shopper's direct-buy checkout, the shopper's later address
\* edits on the profile page, and the vendor's status updates
NextOrder ==
  \/ handleDirectBuy(PageProduct, 1) /\ CheckoutFrame
  \/ handleFormSubmit(TRUE) /\ CheckoutFrame
  \/ ScriptOnLoad /\ CheckoutFrame
  \/ \E i \in 1..Len(gw) : handlePaymentSuccess(i, TRUE) /\ CheckoutFrame
  \/ \E i \in 1..Len(gw) : PaymentProfileUpdate(i, TRUE) /\ CheckoutFrame
  \/ \E i \in 1..Len(gw) : \E ok \in BOOLEAN : PaymentOrderInsert(i, ok) /\ CheckoutFrame
  \/ fetchProfileData("pf1") /\ AddrFrame
  \/ \E i \in 1..MaxAddrIds : openEditAddressForm("pf1", i) /\ AddrFrame
  \/ CancelAddressForm("pf1") /\ AddrFrame
  \/ \E st \in Streets : handleAddOrUpdateAddress("pf1", st) /\ AddrFrame
  \/ \E id \in 1..MaxAddrIds : handleDeleteAddress("pf1", id) /\ AddrFrame
  \/ VendorSteps("v1")

SpecOrder == InitAddr /\ [][NextOrder]_vars

\* ------------------------------------------------------------------------
\* C1: a vendor-side advance changes the persisted status only to a stage
\* strictly later than the persisted one; a target that is the current or
\* an earlier stage leaves the persisted status unchanged.
\* ------------------------------------------------------------------------
C1_AdvanceOnlyForward ==
  [][\A i \in 1..Len(orders) :
       orders'[i].status # orders[i].status =>
         IndexOf(statusOrder, orders'[i].status) > IndexOf(statusOrder, orders[i].status)]_vars

\* ------------------------------------------------------------------------
\* C7: at every moment the cart holds at most one line per (user, product)
\* pair, whatever the interleaving of the adds of the two tabs.
\* ------------------------------------------------------------------------
C7_OneLinePerProduct ==
  \A p \in Products : Cardinality(CartRowsOf(User, p)) <= 1

\* ------------------------------------------------------------------------
\* C2: an order record is created exactly once per successful checkout: a
\* gateway checkout that has not reported success has no order record, one
\* whose success handling has finished has exactly one, and no checkout
\* attempt ever has two.
\* ------------------------------------------------------------------------
C2_OrderCreatedExactlyOnce ==
  /\ \A i \in 1..Len(gw) :
       LET n == Cardinality({k \in 1..Len(orders) : orders[k].payment_id = i}) IN
         /\ gw[i].st \in {"open", "failed", "dismissed"} => n = 0
         /\ gw[i].st \in {"noauth", "error", "clear", "done"} => n = 1
  /\ \A a \in 1..MaxAttempts :
       Cardinality({k \in 1..Len(orders) : orders[k].order_id = a}) <= 1

\* ------------------------------------------------------------------------
\* C3: a payment confirmation is never lost: every reported payment success
\* whose handling has finished ends with a persisted order or with a record
\* in the manual-intervention queue.
\* ------------------------------------------------------------------------
C3_PaymentConfirmationNeverLost ==
  \A i \in 1..Len(gw) :
    gw[i].st \in {"noauth", "error", "clear", "done"} =>
      \/ \E k \in 1..Len(orders) : orders[k].payment_id = i
      \/ i \in EscalatedPayments

\* ------------------------------------------------------------------------
\* C4: a gateway checkout that fails, or that the user closes while payment
\* is awaited, creates no order record and leaves the persisted cart lines
\* as they were: the step that ends it changes neither orders nor cart_items,
\* and no order ever carries its payment.
\* ------------------------------------------------------------------------
C4_FailedPaymentWritesNothing ==
  /\ [][\A i \in 1..Len(gw) :
          (gw[i].st = "open" /\ gw'[i].st \in {"failed", "dismissed"}) =>
            (orders' = orders /\ cartDb' = cartDb)]_vars
  /\ [](\A i \in 1..Len(gw) :
          gw[i].st \in {"failed", "dismissed"} =>
            ~ \E k \in 1..Len(orders) : orders[k].payment_id = i)

\* a cart checkout whose payment failed or was closed, with the cart lines still there
C4_Witness ==
  \E i \in 1..Len(gw) :
    /\ gw[i].st \in {"failed", "dismissed"}
    /\ gw[i].host = "cart"
    /\ {r \in cartDb : r.user_id = User} # {}
    /\ orders = <<>>

\* ------------------------------------------------------------------------
\* C5 as stated: on payment success the order record is persisted first,
\* then the address book is updated, then the cart is cleared; the address
\* book is never written before the order has been persisted, and the cart is
\* never cleared unless the order was persisted.
\* ------------------------------------------------------------------------
C5_OrderThenAddressThenCart ==
  \A i \in 1..Len(gw) :
    \A k \in 1..Len(gw[i].log) :
      gw[i].log[k] \in {"address", "cart"} =>
        \E j \in 1..(k - 1) : gw[i].log[j] = "order"

\* ------------------------------------------------------------------------
\* C5 as amended: on payment success the address-book update is issued
\* first, then the order record is persisted, then the cart is cleared; the
\* order is never persisted before the address-book update has been issued,
\* and the cart is never cleared unless the order was persisted.
\* ------------------------------------------------------------------------
C5_AddressThenOrderThenCart ==
  \A i \in 1..Len(gw) :
    LET log == gw[i].log IN
      /\ Len(log) <= 3
      /\ Len(log) >= 1 => log[1] \in {"address", "address_error"}
      /\ Len(log) >= 2 => log[2] = "order"
      /\ Len(log) >= 3 => log[3] = "cart"
      /\ (\E k \in 1..Len(log) : log[k] = "order") <=>
           (\E k \in 1..Len(orders) : orders[k].payment_id = i)
      /\ (\E k \in 1..Len(log) : log[k] = "cart") =>
           (\E k \in 1..Len(orders) : orders[k].payment_id = i)

\* a cart checkout that wrote the address book, the order and the cart, in that order
C5_Witness ==
  \E i \in 1..Len(gw) :
    /\ gw[i].log = <<"address", "order", "cart">>
    /\ \E k \in 1..Len(orders) : orders[k].payment_id = i
    /\ {r \in cartDb : r.user_id = User} = {}

\* ------------------------------------------------------------------------
\* C6: every successful order placement clears the placing user's cart in
\* full: when the success handling of a persisted order finishes the user
\* has no cart lines left; and the cart is emptied in bulk by no other step.
\* ------------------------------------------------------------------------
C6_OrderPlacementClearsCart ==
  [][/\ \A i \in 1..Len(gw) :
          (gw[i].st # "done" /\ gw'[i].st = "done") =>
            {r \in cartDb' : r.user_id = User} = {}
     /\ (Cardinality({r \in cartDb : r.user_id = User}) >= 2
         /\ {r \in cartDb' : r.user_id = User} = {}) =>
          \E i \in 1..Len(gw) : gw[i].st = "clear" /\ gw'[i].st = "done"]_vars

\* ------------------------------------------------------------------------
\* C8: in every persisted address list at most one address has
\* isDefault = true, after any sequence of address writes from the profile
\* page, profile completion and checkout.
\* ------------------------------------------------------------------------
C8_AtMostOneDefault ==
  Cardinality(Defaults(addrDb)) <= 1

\* a default upsert was the last write, and the address that an open checkout still
\* shows as the default is persisted without the flag
C8_Witness ==
  /\ lastAddrWrite.upsertDefault
  /\ Cardinality(Defaults(addrDb)) = 1
  /\ Len(addrDb) >= 2
  /\ \E k \in 1..Len(userAddresses) :
       /\ userAddresses[k].isDefault
       /\ \E j \in 1..Len(addrDb) :
            addrDb[j].id = userAddresses[k].id /\ ~addrDb[j].isDefault

\* ------------------------------------------------------------------------
\* C9: after any address upsert with isDefault = true has completed (a new
\* address, an edited one, or the "new" address of a checkout), exactly one
\* address of the persisted list has isDefault = true.
\* ------------------------------------------------------------------------
C9_DefaultUpsertLeavesOneDefault ==
  lastAddrWrite.upsertDefault => Cardinality(Defaults(addrDb)) = 1

\* ------------------------------------------------------------------------
\* C10: for every persisted order the sum over its order items of
\* price_at_purchase * quantity equals total_amount minus the shipping fee,
\* the fee being 99 when that sum is greater than 0 and less than 1000 and
\* 0 otherwise.
\* ------------------------------------------------------------------------
C10_ItemsSumIsTotalMinusFee ==
  \A k \in 1..Len(orders) :
    LET its == orders[k].order_items
        sum[n \in 0..Len(its)] ==
          IF n = 0 THEN 0 ELSE sum[n - 1] + its[n].price_at_purchase * its[n].quantity
        fee == IF sum[Len(its)] > 0 /\ sum[Len(its)] < 1000 THEN 99 ELSE 0
    IN sum[Len(its)] = orders[k].total_amount - fee

\* a persisted order with items whose total is below 1000, so the fee was charged
C10_Witness ==
  \E k \in 1..Len(orders) :
    orders[k].order_items # <<>> /\ orders[k].total_amount < 1000

\* ------------------------------------------------------------------------
\* C13: every target status the update dialog of a dashboard session offers
\* (its buttons enabled) is strictly later in the stage order than the status that session
\* currently holds for the order; it never offers an earlier stage or the
\* current stage again.
\* ------------------------------------------------------------------------
C13_DialogOffersOnlyLaterStages ==
  \A v \in Vendors :
    (modalOpen[v] /\ ~isUpdating[v] /\ selectedOrder[v] # NoOrder
       /\ selectedOrder[v].id \in 1..Len(vOrders[v])) =>
      \A s \in availableSteps(selectedOrder[v].status) :
        IndexOf(statusOrder, s) > IndexOf(statusOrder, vOrders[v][selectedOrder[v].id])

\* ------------------------------------------------------------------------
\* C14: advance is idempotent-safe: a target status that a call has already
\* applied to an order changes the order's status once; a later call with
\* the same target is a no-op (or rejected) and never changes the status
\* again.
\* ------------------------------------------------------------------------
C14_AdvanceAppliedOnce ==
  [][\A i \in 1..Len(orders) :
       orders'[i].status # orders[i].status => <<i, orders'[i].status>> \notin applied]_vars

\* ------------------------------------------------------------------------
\* C15: cancelled is absorbing: once the persisted status of an order is
\* cancelled, no step changes it to any other status.
\* ------------------------------------------------------------------------
C15_CancelledIsAbsorbing ==
  [][\A i \in 1..Len(orders) :
       orders[i].status = "cancelled" => orders'[i].status = "cancelled"]_vars

\* C11: the unit price the cart page uses for a listed line is the line's price-at-add,
\* and each item of an order placed from the cart carries the price-at-add of the cart
\* line of its product, whatever the catalog says by then.
C11_PriceAtAddFrozen ==
  /\ [](\A k \in 1..Len(cartItems) : unitPrice(cartItems[k]) = cartItems[k].price_at_add)
  /\ [][Len(orders') > Len(orders) =>
          \A it \in {orders'[Len(orders')].order_items[n] :
                       n \in 1..Len(orders'[Len(orders')].order_items)} :
            \A r \in cartDb :
              r.product_id = it.product_id => it.price_at_purchase = r.price_at_add]_vars

\* C12: on the cart page and in the checkout modal the total is the subtotal plus the
\* shipping fee, and the fee is 0 when the subtotal is 0 or at least 1000 and 99 otherwise.
C12_TotalIsSubtotalPlusFee ==
  LET fee(sub) == IF sub = 0 \/ sub >= 1000 THEN 0 ELSE 99 IN
    /\ cartTotal(filteredCartItems)
         = cartSubtotal(filteredCartItems) + fee(cartSubtotal(filteredCartItems))
    /\ \A i \in 1..Len(gw) : gw[i].amount = subtotal(gw[i].items) + fee(subtotal(gw[i].items))
    /\ host # "none" =>
         LET items == ItemsProp(host, directItem, filteredCartItems) IN
           totalAmount(items) = subtotal(items) + fee(subtotal(items))

\* the cart page shows a subtotal of at least 1000 while a payment was opened with the fee
C12_Witness ==
  /\ cartSubtotal(filteredCartItems) >= 1000
  /\ \E i \in 1..Len(gw) : gw[i].amount = subtotal(gw[i].items) + 99

\* C16: the checkout modal goes on to the payment step only with a shipping address
\* selected or entered and a non-empty list of items, and that step leaves every stored
\* table as it was.
C16_SubmitNeedsAddressAndItems ==
  [][(~showRazorpay /\ showRazorpay') =>
       /\ Len(ItemsProp(host, directItem, filteredCartItems)) > 0
       /\ selectedAddressId # NoSel
       /\ UNCHANGED dbVars]_vars

\* C17: a cart line for a product is inserted only when the user has no line for that
\* product, and no step that adds a line changes the quantity of a line already there.
C17_AddRejectedWhenLineExists ==
  [][\A p \in Products :
       LET before == CartRowsOf(User, p)
           after == {r \in cartDb' : r.user_id = User /\ r.product_id = p} IN
         (after \ before # {}) =>
           /\ before = {}
           /\ \A r \in cartDb : \E r2 \in cartDb' : r2.id = r.id /\ r2.quantity = r.quantity]_vars

C19_EffectiveUnitPrice ==
  LET effective(o, d) == IF d # Null /\ d < o THEN d ELSE o IN
    /\ \A p \in Products :
         /\ displayPrice(p) = effective(catalog[p].original_price, catalog[p].discount_price)
         /\ favPrice(p) = effective(catalog[p].original_price, catalog[p].discount_price)
    /\ \A k \in 1..Len(cartItems) :
         unitPrice(cartItems[k])
           = effective(cartItems[k].original_price, cartItems[k].discount_price)

\* C20: once an order row exists, no step removes it or changes any of its fields other
\* than status: items, total, user, payment and order identifiers and the copied street
\* stay as inserted, also when the address book entry that was used is edited or deleted.
C20_OnlyStatusChanges ==
  [][/\ Len(orders') >= Len(orders)
     /\ \A i \in 1..Len(orders) :
          [orders'[i] EXCEPT !.status = orders[i].status] = orders[i]]_vars

\* an order whose status the vendor has advanced, shipped to the street of a checkout
\* address that the shopper has since edited to another street or deleted
C20_Witness ==
  \E i \in 1..Len(orders) :
    /\ orders[i].status # "confirmed"
    /\ orders[i].street = FormStreet
    /\ nextAddrId > 1
    /\ \A k \in 1..Len(addrDb) : addrDb[k].street # FormStreet

\* C21: the favorites table never holds two rows for the same user and product,
\* whatever the interleaving of the toggles of the three heart buttons.
C21_OneFavoritePerProduct ==
  Cardinality(FavRowsOf(User, FavProduct)) <= 1

\* C22: the reviews table never holds two reviews of the same user for the same
\* product, also when two sessions of the user submit at the same time.
C22_OneReviewPerProduct ==
  Cardinality(ReviewRowsOf(User, ReviewProduct)) <= 1

\* C23: a delete on the profile page leaves the stored address list as it was except
\* for exactly one address taken out: no other address disappears or appears and no
\* remaining address changes its isDefault flag or any other field, so the list may be
\* left without a default.
C23_RemoveExactlyThatAddress ==
  [][(lastAddrWrite'.kind = "remove" /\ addrDb' # addrDb) =>
       \E k \in 1..Len(addrDb) :
         addrDb' = SubSeq(addrDb, 1, k - 1) \o SubSeq(addrDb, k + 1, Len(addrDb))]_vars

\* C24: for every stored order whose status is one of the five stages, the customer
\* timeline shows the stages that come before it in the vendor's stage order as
\* completed, that stage alone as active and the stages after it as pending.
C24_TimelineFollowsStageOrder ==
  \A i \in 1..Len(orders) :
    orders[i].status \in {statusOrder[k] : k \in 1..Len(statusOrder)} =>
      LET t == OrderStatusTimeline(orders[i].status)
          cur == IndexOf(statusOrder, orders[i].status) + 1
      IN /\ Len(t) = Len(statusOrder)
         /\ \A k \in 1..Len(t) :
              t[k] = (IF k < cur THEN "completed" ELSE IF k = cur THEN "active" ELSE "pending")
         /\ Cardinality({k \in 1..Len(t) : t[k] = "active"}) = 1

C24_Witness ==
  \E i \in 1..Len(orders) :
    /\ orders[i].status = "preparing"
    /\ OrderStatusTimeline(orders[i].status) =
         <<"completed", "completed", "active", "pending", "pending">>

\* C25: every stored order carries as total_amount the amount that was handed to the
\* payment gateway for the checkout that created it, whatever happened to the cart and
\* to the items shown by the host page while the payment was pending.
C25_GatewayAmountIsOrderTotal ==
  \A k \in 1..Len(orders) :
    orders[k].payment_id \in 1..Len(gw) =>
      orders[k].total_amount = gw[orders[k].payment_id].amount

\* an order was stored from the cart page, its cart clear has not run yet, and the
\* list the cart page now holds gives the order's items under no search term: the page
\* re-fetched a changed cart (and mounted the modal again) while the payment was pending
C25_Witness ==
  \E k \in 1..Len(orders) :
    /\ orders[k].payment_id \in 1..Len(gw)
    /\ gw[orders[k].payment_id].st = "clear"
    /\ orderId = 0       \* the modal was mounted again after the submit
    /\ \A t \in SearchTerms :
         ItemsProp("cart", directItem, FilterBySearch(cartItems, t)) # gw[orders[k].payment_id].items

\* C26: the cart clear that follows a stored order deletes only cart lines whose
\* product is among the items of that order.
C26_ClearOnlyOrderedLines ==
  [][\A i \in 1..Len(gw) :
       (i <= Len(gw') /\ gw[i].st = "clear" /\ gw'[i].st = "done") =>
         \A r \in cartDb \ cartDb' :
           \E j \in 1..Len(gw[i].items) : gw[i].items[j].productId = r.product_id]_vars

\* C27: a stored address stays in the stored list with its street until it is edited
\* or removed on purpose: one write takes away or alters at most the one address a
\* profile-page edit or delete is aimed at, and a profile completion or a checkout
\* write none at all.
C27_SavedAddressStays ==
  [][Cardinality({k \in 1..Len(addrDb) :
                    ~\E j \in 1..Len(addrDb') :
                       addrDb'[j].id = addrDb[k].id /\ addrDb'[j].street = addrDb[k].street})
       <= (IF lastAddrWrite'.kind \in {"remove", "upsert"} THEN 1 ELSE 0)]_vars

\* C28: each submitted checkout attempt has at most one gateway checkout opened for it.
C28_OneOpenPerAttempt ==
  \A a \in 1..MaxAttempts :
    Cardinality({i \in 1..Len(gw) : gw[i].orderId = a}) <= 1

C30_ViewIsPersistedAfterNotification ==
  [][\A v \in Vendors :
       (Len(rtQueue'[v]) < Len(rtQueue[v]) /\ Len(vOrders[v]) = Len(orders)) =>
         vOrders'[v] = [i \in 1..Len(orders') |-> orders'[i].status]]_vars

====
